---- MODULE Spec2Model ----
(***************************************************************************)
(* A model of the DOI correction scripts of opencitations/doi_corrector.    *)
(*                                                                         *)
(* Text is modelled as a sequence of one-character strings, so that the     *)
(* regular expressions, str.find, str.strip and str.replace of the source   *)
(* are computed character by character.                                     *)
(*                                                                         *)
(*   SpecRef    ReferenceProcessor.extract_reference_info                   *)
(*              (Scripts/reference_formatter_for_crossref.py)               *)
(*   SpecMatch  DOIMatcher.process: load_csv, load_json, match_dois,        *)
(*              save_results (Scripts/citing_doi_matcher.py)                *)
(*   SpecCite   SPARQLCitationExtractor: extract_citing_data,               *)
(*              extract_cited_data, merge_citing_and_cited_data, run in     *)
(*              the order of the main script (Scripts/citation_finder.py)   *)
(*   SpecMeta   CrossRefProcessor.process_data with get_crossref_data       *)
(*              (Scripts/cited_articles_metadata_gatherer.py)               *)
(*   SpecValid  DOIValidator.validate_doi_list with validate_doi            *)
(*              (Scripts/new_doi_validator.py)                              *)
(*   SpecPhases the phases that work from files only, run again             *)
(***************************************************************************)
EXTENDS Integers, Sequences, FiniteSets, TLC

VARIABLES
    reference,    \* the argument of extract_reference_info
    ref_result,   \* the dict it returned
    ref_pc,       \* "idle" | "input" | "returned"
    csv_file,     \* the 'id' column of DOIMatcher.csv_file, one value per row
    json_file,    \* the parsed content of DOIMatcher.json_file
    doi_set,      \* process(): doi_set
    json_data,    \* process(): json_data
    results,      \* process(): results
    output_file,  \* the rows of DOIMatcher.output_file
    pc,           \* position inside process()
    runs,         \* completed calls of process()
    journal_column,        \* SPARQLCitationExtractor: the 'journal' column of input_csv_path
    cite_pc,               \* position in the main script of citation_finder.py
    cite_idx,              \* position of the running for loop in journal_column
    citations_list,        \* extract_citing_data: citations_list
    citations_cited_list,  \* extract_cited_data: citations_cited_list
    sparql_results,        \* the file sparql_results.csv
    sparql_results_cited,  \* the file sparql_results_cited.csv
    all_citations,         \* the file all_citations.csv
    queries,               \* the queries sent to the SPARQL endpoint, in order
    cite_printed,          \* the error lines printed by query_sparql_citing / _cited
    merge_runs,            \* completed calls of merge_citing_and_cited_data
    doi_citing_entity,  \* CrossRefProcessor: the 'doi_citing_entity' column of input_csv
    meta_pc,            \* position inside process_data
    meta_idx,           \* position of the for loop in doi_citing_entity
    references_data,    \* process_data: references_data
    csv_rows,           \* process_data: csv_rows
    output_json,        \* the file output_json
    output_csv,         \* the file output_csv
    meta_log,           \* requests sent to the CrossRef API and pauses taken, in order
    meta_printed,       \* the DOIs of the error lines printed by get_crossref_data
    filtered_json,      \* the file filtered_json
    filter_runs,        \* completed calls of filter_referenced_dois
    doi_list,         \* DOIValidator.doi_list
    valid_pc,         \* position in the script of new_doi_validator.py
    valid_idx,        \* position of the for loop of validate_doi_list in doi_list
    valid_results,    \* DOIValidator.results
    valid_fetched,    \* what the two get_..._metadata calls returned, per iteration
    validation_file   \* the file doi_validation_results.json

refVars   == <<reference, ref_result, ref_pc>>
matchVars == <<csv_file, json_file, doi_set, json_data, results, output_file, pc, runs>>
citeVars  == <<journal_column, cite_pc, cite_idx, citations_list, citations_cited_list,
               sparql_results, sparql_results_cited, all_citations, queries,
               cite_printed, merge_runs>>
metaVars  == <<doi_citing_entity, meta_pc, meta_idx, references_data, csv_rows,
               output_json, output_csv, meta_log, meta_printed, filtered_json,
               filter_runs>>
validVars == <<doi_list, valid_pc, valid_idx, valid_results, valid_fetched,
               validation_file>>
vars      == <<refVars, matchVars, citeVars, metaVars, validVars>>

----------------------------------------------------------------------------
(* Bounds of the model *)

MaxTokens == 4     \* tokens in a generated reference string
MaxRows == 2       \* rows of the known-corpus CSV
MaxRefs == 2       \* referenced DOIs per citing entry
MaxRuns == 2       \* calls of process() on the same files
MaxSeeds == 2      \* rows of the 'journal' column
MaxBindings == 2   \* bindings one SPARQL query returns
MaxDois == 2       \* rows of the 'doi_citing_entity' column

----------------------------------------------------------------------------
(* Python values and str methods *)

\* Python's None; no text equals it, since text holds one-character strings.
None == <<"None">>

\* bool(x) of a str or None
Truthy(x) == x # None /\ x # <<>>

Digits == {"0", "1", "2", "3", "4", "5", "6", "7", "8", "9"}
LowerCase == {"a", "b", "c", "d", "e", "f", "g", "h", "i", "j", "k", "l", "m",
              "n", "o", "p", "q", "r", "s", "t", "u", "v", "w", "x", "y", "z"}
UpperCase == {"A", "B", "C", "D", "E", "F", "G", "H", "I", "J", "K", "L", "M",
              "N", "O", "P", "Q", "R", "S", "T", "U", "V", "W", "X", "Y", "Z"}
WhiteSpace == {" ", "\n", "\t", "\r"}

\* regex \d, \s, \w
IsDigit(c) == c \in Digits
IsSpace(c) == c \in WhiteSpace
IsWord(c) == c \in Digits \cup LowerCase \cup UpperCase \cup {"_"}

\* s[p-1:] starts with lit, p being the 1-based position of the next character
StartsWithAt(s, p, lit) ==
    /\ p >= 1
    /\ p + Len(lit) - 1 <= Len(s)
    /\ SubSeq(s, p, p + Len(lit) - 1) = lit

\* str.find(lit): lowest 0-based index of lit in s, -1 when absent
find(s, lit) ==
    LET hits == {p \in 1..Len(s) : StartsWithAt(s, p, lit)}
    IN  IF hits = {} THEN -1
        ELSE (CHOOSE p \in hits : \A q \in hits : p <= q) - 1

\* str.strip(): leading and trailing whitespace removed
strip(s) ==
    LET solid == {p \in 1..Len(s) : ~IsSpace(s[p])}
    IN  IF solid = {} THEN <<>>
        ELSE SubSeq(s, CHOOSE p \in solid : \A q \in solid : p <= q,
                       CHOOSE p \in solid : \A q \in solid : p >= q)

\* s[start:] for a 0-based start, negative values counting from the end
SliceFrom(s, start) ==
    LET from == IF start < 0
                THEN (IF Len(s) + start < 0 THEN 0 ELSE Len(s) + start)
                ELSE start
    IN  SubSeq(s, from + 1, Len(s))

\* regex \b at position p (between s[p-1] and s[p])
WordBoundary(s, p) ==
    (p > 1 /\ IsWord(s[p - 1])) # (p <= Len(s) /\ IsWord(s[p]))

\* regex $ at position p: the end of the text, or just before a final newline
AtEnd(s, p) ==
    \/ p = Len(s) + 1
    \/ p = Len(s) /\ s[p] = "\n"

----------------------------------------------------------------------------
(* reference_formatter_for_crossref.py: ReferenceProcessor *)

MinDoiDigits == 4   \* \d{4,9}
MaxDoiDigits == 9

PMID == <<"P", "M", "I", "D">>
DoiHead == <<"1", "0", ".">>

\* the character class [:\s] of pmid_pattern
IsPmidSep(c) == c = ":" \/ IsSpace(c)

\* the character class [^\s:,\);] of doi_pattern
IsDoiChar(c) == ~(IsSpace(c) \/ c \in {":", ",", ")", ";"})

AllDigits(s, from, to) == \A p \in from..to : IsDigit(s[p])
AllDoiChars(s, from, to) == \A p \in from..to : IsDoiChar(s[p])

\* The ways pmid_pattern  \bPMID[:\s]?(\d+)\b  matches starting at position i:
\* sep characters taken by [:\s]?, nd digits taken by (\d+).
PmidMatchesAt(s, i) ==
    IF ~(WordBoundary(s, i) /\ StartsWithAt(s, i, PMID)) THEN {}
    ELSE {m \in [sep : {0, 1}, nd : 1..(Len(s) - i - 3)] :
            /\ i + 3 + m.sep + m.nd <= Len(s)
            /\ m.sep = 1 => IsPmidSep(s[i + 4])
            /\ AllDigits(s, i + 4 + m.sep, i + 3 + m.sep + m.nd)
            /\ WordBoundary(s, i + 4 + m.sep + m.nd)}

\* re.search(pmid_pattern, s): the leftmost start, and there the match the
\* greedy quantifiers try first ([:\s]? taken before skipped, then most digits).
\* group(1) is the digit run.  None when nothing matches.
PmidSearch(s) ==
    LET starts == {i \in 1..Len(s) : PmidMatchesAt(s, i) # {}}
    IN  IF starts = {} THEN None
        ELSE LET i == CHOOSE a \in starts : \A b \in starts : a <= b
                 ms == PmidMatchesAt(s, i)
                 m == CHOOSE a \in ms : \A b \in ms :
                          \/ a.sep > b.sep
                          \/ a.sep = b.sep /\ a.nd >= b.nd
             IN  SubSeq(s, i + 4 + m.sep, i + 3 + m.sep + m.nd)

\* The lookahead (?=PMID|$) at position p
DoiLookahead(s, p) == StartsWithAt(s, p, PMID) \/ AtEnd(s, p)

\* The ways doi_pattern  (10\.\d{4,9}/[^\s:,\);]+)(?=PMID|$)  matches starting
\* at position i: nd registrant digits, nc suffix characters.
DoiMatchesAt(s, i) ==
    IF ~StartsWithAt(s, i, DoiHead) THEN {}
    ELSE {m \in [nd : MinDoiDigits..MaxDoiDigits, nc : 1..(Len(s) - i - 2)] :
            /\ i + 3 + m.nd + m.nc <= Len(s)
            /\ AllDigits(s, i + 3, i + 2 + m.nd)
            /\ s[i + 3 + m.nd] = "/"
            /\ AllDoiChars(s, i + 4 + m.nd, i + 3 + m.nd + m.nc)
            /\ DoiLookahead(s, i + 4 + m.nd + m.nc)}

\* re.search(doi_pattern, s).group(0): the leftmost start, and there the match
\* the greedy quantifiers try first (most digits, then the longest suffix the
\* lookahead accepts).  None when nothing matches.
DoiSearch(s) ==
    LET starts == {i \in 1..Len(s) : DoiMatchesAt(s, i) # {}}
    IN  IF starts = {} THEN None
        ELSE LET i == CHOOSE a \in starts : \A b \in starts : a <= b
                 ms == DoiMatchesAt(s, i)
                 m == CHOOSE a \in ms : \A b \in ms :
                          \/ a.nd > b.nd
                          \/ a.nd = b.nd /\ a.nc >= b.nc
             IN  SubSeq(s, i, i + 3 + m.nd + m.nc)

\* a dict without keys
EmptyDict == [k \in {} |-> None]

\* extract_reference_info without the early return of the title branch: the
\* title is kept next to the identifiers found
extract_reference_info_keeps_title(ref) ==
    LET pmid == PmidSearch(ref)
        doi == DoiSearch(ref)
        title_start == find(ref, <<")">>) + 1
    IN  [title |-> strip(SliceFrom(ref, title_start))]
        @@ (IF Truthy(pmid) THEN "pmid" :> pmid ELSE EmptyDict)
        @@ (IF Truthy(doi) THEN "doi" :> doi ELSE EmptyDict)

\* extract_reference_info with title_start = reference.find(")"), the "+ 1" lost
extract_reference_info_from_paren(ref) ==
    LET pmid == PmidSearch(ref)
        doi == DoiSearch(ref)
    IN  IF ~Truthy(pmid) /\ ~Truthy(doi)
        THEN LET title_start == find(ref, <<")">>)
             IN  [title |-> strip(SliceFrom(ref, title_start))]
        ELSE (IF Truthy(pmid) THEN "pmid" :> pmid ELSE EmptyDict)
             @@ (IF Truthy(doi) THEN "doi" :> doi ELSE EmptyDict)

\* ReferenceProcessor.extract_reference_info(reference)
extract_reference_info(ref) ==
    LET pmid == PmidSearch(ref)
        doi == DoiSearch(ref)
    IN  IF ~Truthy(pmid) /\ ~Truthy(doi)
        THEN LET title_start == find(ref, <<")">>) + 1
             IN  [title |-> strip(SliceFrom(ref, title_start))]
        ELSE (IF Truthy(pmid) THEN "pmid" :> pmid ELSE EmptyDict)
             @@ (IF Truthy(doi) THEN "doi" :> doi ELSE EmptyDict)

\* Pieces the generated reference strings are concatenated from
TokDoi == <<"1", "0", ".", "1", "2", "3", "4", "/", "a">>
RefTokens ==
    {TokDoi, PMID, <<":">>, <<" ">>, <<"5">>, <<")">>, <<"a">>, <<"-">>, <<"\n">>}

\* Reference strings given whole: the example of the specification, and
\* registrant numbers of 3, of 9 and of 10 digits
RefExample ==
    <<"S", "m", "i", "t", "h", " ", "J", " ", "(", "2", "0", "2", "0", ")", " ",
      "P", "M", "I", "D", ":", "1", "2", "3", "4", "5", " ",
      "1", "0", ".", "1", "0", "0", "0", "/", "x", "y", "z", "1", "2", "3">>
RefShortDoi == <<"1", "0", ".", "1", "2", "3", "/", "a">>
RefLongDoi ==
    <<"1", "0", ".", "1", "2", "3", "4", "5", "6", "7", "8", "9", "/", "a">>
RefOverlongDoi ==
    <<"1", "0", ".", "1", "2", "3", "4", "5", "6", "7", "8", "9", "0", "/", "a">>

RECURSIVE TokenStrings(_)
TokenStrings(n) ==
    IF n = 0 THEN {<<>>}
    ELSE LET shorter == TokenStrings(n - 1)
         IN  shorter \cup {s \o t : s \in shorter, t \in RefTokens}

RefInputs ==
    TokenStrings(MaxTokens) \cup {RefExample, RefShortDoi, RefLongDoi, RefOverlongDoi}

\* a file that does not exist; no table equals it
NoFile == [exists |-> FALSE, rows |-> <<>>]

\* The citation extractor at rest
CiteIdle ==
    /\ journal_column = <<>>
    /\ cite_pc = "idle"
    /\ cite_idx = 0
    /\ citations_list = <<>>
    /\ citations_cited_list = <<>>
    /\ sparql_results = NoFile
    /\ sparql_results_cited = NoFile
    /\ all_citations = NoFile
    /\ queries = <<>>
    /\ cite_printed = <<>>
    /\ merge_runs = 0

\* a JSON file that does not exist
NoJson == [exists |-> FALSE, data |-> <<>>]

\* The metadata gatherer at rest
MetaIdle ==
    /\ doi_citing_entity = <<>>
    /\ meta_pc = "idle"
    /\ meta_idx = 0
    /\ references_data = <<>>
    /\ csv_rows = <<>>
    /\ output_json = NoJson
    /\ output_csv = NoFile
    /\ meta_log = <<>>
    /\ meta_printed = <<>>
    /\ filtered_json = NoJson
    /\ filter_runs = 0

\* The validator at rest
ValidIdle ==
    /\ doi_list = <<>>
    /\ valid_pc = "idle"
    /\ valid_idx = 0
    /\ valid_results = <<>>
    /\ valid_fetched = <<>>
    /\ validation_file = NoJson

\* The matcher at rest, while the reference parser is examined
MatchIdle ==
    /\ csv_file = <<>>
    /\ json_file = <<>>
    /\ doi_set = {}
    /\ json_data = <<>>
    /\ results = <<>>
    /\ output_file = <<>>
    /\ pc = "idle"
    /\ runs = 0

InitRef ==
    /\ reference \in RefInputs
    /\ ref_result = EmptyDict
    /\ ref_pc = "input"
    /\ MatchIdle
    /\ CiteIdle
    /\ MetaIdle
    /\ ValidIdle

\* One call of extract_reference_info, as process_references makes per reference
Extract ==
    /\ ref_pc = "input"
    /\ ref_result' = extract_reference_info(reference)
    /\ ref_pc' = "returned"
    /\ UNCHANGED <<reference, matchVars, citeVars, metaVars, validVars>>

NextRef == Extract

SpecRef == InitRef /\ [][NextRef]_vars

----------------------------------------------------------------------------
(* Properties of extract_reference_info *)

Returned == ref_pc = "returned"
Keys == DOMAIN ref_result

\* s holds, somewhere, a DOI shape 10.<4 to 9 digits>/<one or more characters
\* other than whitespace : , ) ;>
DoiShapeAt(s, i) ==
    /\ StartsWithAt(s, i, DoiHead)
    /\ \E nd \in MinDoiDigits..MaxDoiDigits :
          /\ i + 3 + nd + 1 <= Len(s)
          /\ AllDigits(s, i + 3, i + 2 + nd)
          /\ s[i + 3 + nd] = "/"
          /\ IsDoiChar(s[i + 4 + nd])
ContainsDoiShape(s) == \E i \in 1..Len(s) : DoiShapeAt(s, i)

\* s holds, somewhere, a PMID token: PMID, at most one of ':' or whitespace,
\* then a number that a non-word character or the end of the text closes
PmidTokenAt(s, i) ==
    /\ StartsWithAt(s, i, PMID)
    /\ \E sep \in {0, 1}, nd \in 1..Len(s) :
          /\ i + 3 + sep + nd <= Len(s)
          /\ sep = 1 => IsPmidSep(s[i + 4])
          /\ AllDigits(s, i + 4 + sep, i + 3 + sep + nd)
          /\ WordBoundary(s, i + 4 + sep + nd)
ContainsPmidToken(s) == \E i \in 1..Len(s) : PmidTokenAt(s, i)

\* C1: extract_reference_info returns for every string (every step from an
\* input state is a return: the code has no raising path, and TLC evaluates
\* the operator on every input), and what it returns either has 'title' and
\* neither 'doi' nor 'pmid', or has at least one of 'doi' and 'pmid' and no
\* 'title'.
C1_OneCategory ==
    Returned => \/ Keys = {"title"}
                \/ Keys # {} /\ Keys \subseteq {"doi", "pmid"}

\* a returned record of the identifier category, both fields present
C1_Witness ==
    /\ Returned
    /\ reference = RefExample
    /\ Keys = {"doi", "pmid"}

\* C2: a reference holding both a PMID token and a DOI gets both fields, the
\* DOI capture holds no PMID token, and the example of the specification
\* yields pmid 12345 and doi 10.1000/xyz123.
C2_BothRecorded ==
    Returned =>
        /\ reference = RefExample =>
              /\ Keys = {"doi", "pmid"}
              /\ ref_result.pmid = <<"1", "2", "3", "4", "5">>
              /\ ref_result.doi = SubSeq(RefExample, 27, 40)
        /\ ContainsPmidToken(reference) /\ ContainsDoiShape(reference) =>
              /\ Keys = {"doi", "pmid"}
              /\ ~ContainsPmidToken(ref_result.doi)

\* The DOI the text holds: the leftmost DOI shape, ended before the first
\* delimiter, before a PMID that follows, or at the end of the text
ShapeDoi(s) ==
    LET i == CHOOSE a \in 1..Len(s) :
                 DoiShapeAt(s, a) /\ \A b \in 1..(a - 1) : ~DoiShapeAt(s, b)
        slash == CHOOSE p \in (i + 3)..Len(s) :
                     s[p] = "/" /\ AllDigits(s, i + 3, p - 1)
        stops == {p \in (slash + 2)..(Len(s) + 1) :
                     \/ p = Len(s) + 1
                     \/ ~IsDoiChar(s[p])
                     \/ StartsWithAt(s, p, PMID)}
    IN  SubSeq(s, i, (CHOOSE p \in stops : \A q \in stops : p <= q) - 1)

\* C3: a 'doi' field is reported whenever the reference holds a DOI shape,
\* wherever it stands, and the field is that DOI.
C3_DoiFoundAnywhere ==
    Returned /\ ContainsDoiShape(reference) =>
        /\ "doi" \in Keys
        /\ ref_result.doi = ShapeDoi(reference)

\* t is x without its leading and trailing whitespace
IsTrimOf(t, x) ==
    /\ t = <<>> \/ (~IsSpace(t[1]) /\ ~IsSpace(t[Len(t)]))
    /\ \E lead \in 0..Len(x) :
          /\ lead + Len(t) <= Len(x)
          /\ SubSeq(x, lead + 1, lead + Len(t)) = t
          /\ \A p \in (1..lead) \cup ((lead + Len(t) + 1)..Len(x)) : IsSpace(x[p])

\* after is what follows the first ')' of s, or s when it has none
IsAfterFirstParen(after, s) ==
    IF \E p \in 1..Len(s) : s[p] = ")"
    THEN \E p \in 1..Len(s) :
            /\ s[p] = ")"
            /\ \A q \in 1..(p - 1) : s[q] # ")"
            /\ after = SubSeq(s, p + 1, Len(s))
    ELSE after = s

\* C4: when neither a PMID nor a DOI is found the record is title-only, the
\* title being the trimmed text after the first ')' or the whole trimmed text;
\* an empty or whitespace-only reference gives the empty title.
C4_TitleFallback ==
    Returned /\ PmidSearch(reference) = None /\ DoiSearch(reference) = None =>
        /\ Keys = {"title"}
        /\ \E n \in 0..Len(reference) :
              /\ IsAfterFirstParen(SubSeq(reference, n + 1, Len(reference)), reference)
              /\ IsTrimOf(ref_result.title, SubSeq(reference, n + 1, Len(reference)))
        /\ (\A p \in 1..Len(reference) : IsSpace(reference[p])) =>
              ref_result.title = <<>>

\* a title cut after a ')' and trimmed on both sides
C4_Witness ==
    /\ Returned
    /\ Keys = {"title"}
    /\ reference = <<")", " ", "a", " ">>
    /\ ref_result.title = <<"a">>

----------------------------------------------------------------------------
(* citing_doi_matcher.py: DOIMatcher *)

\* a missing value of the CSV (pandas NaN); no text equals it
NaN == <<"NaN">>

DoiPrefix == <<"d", "o", "i", ":">>

\* str.replace(old, new): the non-overlapping occurrences of old, taken from
\* the left, replaced by new
RECURSIVE str_replace(_, _, _)
str_replace(s, old, new) ==
    IF Len(s) < Len(old) THEN s
    ELSE IF StartsWithAt(s, 1, old)
         THEN new \o str_replace(SubSeq(s, Len(old) + 1, Len(s)), old, new)
         ELSE <<Head(s)>> \o str_replace(Tail(s), old, new)

\* df["id"].str.replace("doi:", "", regex=False) on one value; NaN stays NaN
CleanId(v) == IF v = NaN THEN NaN ELSE str_replace(v, DoiPrefix, <<>>)

\* df["id"].str raises AttributeError when the column holds rows and none of
\* them is text (read_csv then types the column as float)
load_csv_raises(rows) == Len(rows) > 0 /\ \A i \in 1..Len(rows) : rows[i] = NaN

\* DOIMatcher.load_csv: the cleaned ids, NaN dropped, as a set
load_csv(rows) == {CleanId(rows[i]) : i \in {j \in 1..Len(rows) : rows[j] # NaN}}

\* DOIMatcher.load_json: the parsed file, a dict kept as its items in file
\* order, each item <<key, value>>
load_json(file) == file

\* dict.get(key, default)
Get(d, key, default) == IF key \in DOMAIN d THEN d[key] ELSE default

\* match_dois, the inner loop: the pairs one entry adds to results
EntryMatches(set, entry_doi, entry_data) ==
    LET refs == Get(entry_data, "referenced_dois", <<>>)
        hits == SelectSeq(refs, LAMBDA r : r \in set)
    IN  [i \in 1..Len(hits) |-> <<entry_doi, hits[i]>>]

\* match_dois, the outer loop over json_data.items()
RECURSIVE MatchEntries(_, _)
MatchEntries(set, data) ==
    IF data = <<>> THEN <<>>
    ELSE EntryMatches(set, Head(data)[1], Head(data)[2])
         \o MatchEntries(set, Tail(data))

\* match_dois testing the citing DOI, not the referenced one, against the set
RECURSIVE MatchEntriesByCiting(_, _)
MatchEntriesByCiting(set, data) ==
    IF data = <<>> THEN <<>>
    ELSE LET entry_doi == Head(data)[1]
             refs == Get(Head(data)[2], "referenced_dois", <<>>)
             hits == SelectSeq(refs, LAMBDA r : entry_doi \in set)
         IN  [i \in 1..Len(hits) |-> <<entry_doi, hits[i]>>]
             \o MatchEntriesByCiting(set, Tail(data))
match_dois_tests_citing(set, data) == MatchEntriesByCiting(set, data)

\* match_dois leaving an entry's list at the first referenced DOI outside the
\* set (break in place of going on)
RECURSIVE HitsUntilMiss(_, _)
HitsUntilMiss(set, refs) ==
    IF refs = <<>> \/ Head(refs) \notin set THEN <<>>
    ELSE <<Head(refs)>> \o HitsUntilMiss(set, Tail(refs))
RECURSIVE MatchEntriesUntilMiss(_, _)
MatchEntriesUntilMiss(set, data) ==
    IF data = <<>> THEN <<>>
    ELSE LET entry_doi == Head(data)[1]
             hits == HitsUntilMiss(set, Get(Head(data)[2], "referenced_dois", <<>>))
         IN  [i \in 1..Len(hits) |-> <<entry_doi, hits[i]>>]
             \o MatchEntriesUntilMiss(set, Tail(data))
match_dois_stops_at_miss(set, data) == MatchEntriesUntilMiss(set, data)

\* match_dois without the membership test: every referenced DOI is appended
RECURSIVE MatchEntriesUntested(_, _)
MatchEntriesUntested(set, data) ==
    IF data = <<>> THEN <<>>
    ELSE LET entry_doi == Head(data)[1]
             refs == Get(Head(data)[2], "referenced_dois", <<>>)
         IN  [i \in 1..Len(refs) |-> <<entry_doi, refs[i]>>]
             \o MatchEntriesUntested(set, Tail(data))
match_dois_untested(set, data) == MatchEntriesUntested(set, data)

\* DOIMatcher.match_dois(doi_set, json_data)
match_dois(set, data) == MatchEntries(set, data)

\* DOIMatcher.save_results: the rows written to output_file
save_results(res) == res

\* Identifiers of the generated files
Registrant == <<"1", "0", ".", "1", "0", "0", "0", "/">>
IdA == Registrant \o <<"a">>
IdB == Registrant \o <<"b">>
IdC == Registrant \o <<"c">>
IdZ == Registrant \o <<"z">>
IdUpperA == Registrant \o <<"A">>
Resolver ==
    <<"h", "t", "t", "p", "s", ":", "/", "/", "d", "o", "i", ".", "o", "r", "g", "/">>

\* 'id' values of the known-corpus CSV, and referenced DOIs of the JSON: plain
\* ones, and ones that differ in prefix or letter case
CsvIds == {DoiPrefix \o IdA, DoiPrefix \o IdB, NaN}
RefIds == {IdA, IdZ}
CitingIds == {IdC, IdA}
CsvIdForms == {DoiPrefix \o IdA, IdA, <<"d">> \o DoiPrefix \o <<"o", "i", ":">> \o IdA}
RefIdForms == {IdA, IdUpperA, DoiPrefix \o IdA, <<"D", "O", "I", ":">> \o IdA, Resolver \o IdA}

\* the sequences over S of length at most n
RECURSIVE SeqsUpTo(_, _)
SeqsUpTo(S, n) ==
    IF n = 0 THEN {<<>>}
    ELSE LET shorter == SeqsUpTo(S, n - 1)
         IN  shorter \cup {Append(q, x) : q \in shorter, x \in S}

\* the values an entry of the JSON may have: with a list of referenced DOIs,
\* or without the key
EntryValues(k, refSet, n) ==
    {[doi |-> k]} \cup {[doi |-> k, referenced_dois |-> l] : l \in SeqsUpTo(refSet, n)}

\* the parsed JSON files: items in any order, keys distinct
JsonFiles(keys, refSet, n) ==
    {q \in SeqsUpTo(UNION {{<<k, v>> : v \in EntryValues(k, refSet, n)} : k \in keys},
                    Cardinality(keys)) :
        \A i, j \in 1..Len(q) : i # j => q[i][1] # q[j][1]}

InitMatch ==
    /\ \/ /\ csv_file \in SeqsUpTo(CsvIds, MaxRows)
          /\ json_file \in JsonFiles(CitingIds, RefIds, MaxRefs)
       \/ /\ csv_file \in SeqsUpTo(CsvIdForms, MaxRows)
          /\ json_file \in JsonFiles({IdC}, RefIdForms, 1)
    /\ doi_set = {}
    /\ json_data = <<>>
    /\ results = <<>>
    /\ output_file = <<>>
    /\ pc = "ready"
    /\ runs = 0
    /\ reference = <<>>
    /\ ref_result = EmptyDict
    /\ ref_pc = "idle"
    /\ CiteIdle
    /\ MetaIdle
    /\ ValidIdle

\* DOIMatcher.process(): load_csv, load_json, match_dois, save_results
Process ==
    /\ pc \in {"ready", "done"}
    /\ runs < MaxRuns
    /\ ~load_csv_raises(csv_file)
    /\ doi_set' = load_csv(csv_file)
    /\ json_data' = load_json(json_file)
    /\ results' = match_dois(doi_set', json_data')
    /\ output_file' = save_results(results')
    /\ runs' = runs + 1
    /\ pc' = "done"
    /\ UNCHANGED <<csv_file, json_file, refVars, citeVars, metaVars, validVars>>

\* DOIMatcher.process() when load_csv raises: nothing is loaded or written
ProcessRaises ==
    /\ pc \in {"ready", "done"}
    /\ runs < MaxRuns
    /\ load_csv_raises(csv_file)
    /\ pc' = "raised"
    /\ UNCHANGED <<csv_file, json_file, doi_set, json_data, results, output_file,
                   runs, refVars, citeVars, metaVars, validVars>>

NextMatch == Process \/ ProcessRaises

SpecMatch == InitMatch /\ [][NextMatch]_vars

----------------------------------------------------------------------------
(* Properties of DOIMatcher *)

Range(q) == {q[i] : i \in 1..Len(q)}

\* process() has returned
Matched == pc = "done"

\* the referenced DOIs listed for an item <<citing, value>> of the JSON
RefsOf(item) == Get(item[2], "referenced_dois", <<>>)

\* the pairs (citing, d) with d listed for citing and d in the known corpus
ListedAndKnown ==
    UNION {{<<item[1], d>> : d \in Range(RefsOf(item)) \cap doi_set} :
              item \in Range(json_data)}

\* the pairs (citing, d) with d listed for citing and d outside the corpus
UnmatchedPairs ==
    UNION {{<<item[1], d>> : d \in Range(RefsOf(item)) \ doi_set} :
              item \in Range(json_data)}

ExampleCsv == <<DoiPrefix \o IdA, DoiPrefix \o IdB>>
ExampleJson == <<<<IdC, [doi |-> IdC, referenced_dois |-> <<IdA, IdZ>>]>>>>

\* C5: match_dois emits (citing, d) exactly when d is listed among the
\* referenced DOIs of citing and d is in the known-corpus set; the corpus
\* {10.1000/a, 10.1000/b} and citing 10.1000/c with referenced DOIs
\* 10.1000/a, 10.1000/z give the one edge (10.1000/c, 10.1000/a).
C5_EdgeIffListedAndKnown ==
    Matched =>
        /\ Range(results) = ListedAndKnown
        /\ csv_file = ExampleCsv /\ json_file = ExampleJson =>
              results = <<<<IdC, IdA>>>>

\* the example of the specification, matched
C5_Witness ==
    /\ Matched
    /\ csv_file = ExampleCsv
    /\ json_file = ExampleJson
    /\ doi_set = {IdA, IdB}
    /\ results = <<<<IdC, IdA>>>>

NoDuplicates(q) == \A i, j \in 1..Len(q) : i # j => q[i] # q[j]

\* C6: the edges match_dois returns and save_results writes hold no
\* (citing, cited) pair more than once.
C6_NoDuplicateEdges ==
    Matched => NoDuplicates(results) /\ NoDuplicates(output_file)

\* The canonical form of an identifier as the specification states it:
\* trimmed, lower-cased, without resolver prefix and without 'doi:' prefix
UpperLetters == <<"A", "B", "C", "D", "E", "F", "G", "H", "I", "J", "K", "L", "M",
                  "N", "O", "P", "Q", "R", "S", "T", "U", "V", "W", "X", "Y", "Z">>
LowerLetters == <<"a", "b", "c", "d", "e", "f", "g", "h", "i", "j", "k", "l", "m",
                  "n", "o", "p", "q", "r", "s", "t", "u", "v", "w", "x", "y", "z">>
ToLower(c) ==
    IF \E i \in 1..Len(UpperLetters) : UpperLetters[i] = c
    THEN LowerLetters[CHOOSE i \in 1..Len(UpperLetters) : UpperLetters[i] = c]
    ELSE c
DropPrefix(s, prefix) ==
    IF StartsWithAt(s, 1, prefix) THEN SubSeq(s, Len(prefix) + 1, Len(s)) ELSE s
Canonical(s) ==
    LET lowered == [i \in 1..Len(strip(s)) |-> ToLower(strip(s)[i])]
    IN  DropPrefix(DropPrefix(lowered, Resolver), DoiPrefix)

\* C7: a referenced DOI whose canonical form is that of a known-corpus id
\* (they differ by letter case, a doi: / DOI: prefix or the resolver prefix at
\* most) produces an edge.
C7_CanonicalMatching ==
    Matched =>
        \A item \in Range(json_data) : \A d \in Range(RefsOf(item)) :
            (\E i \in 1..Len(csv_file) :
                csv_file[i] # NaN /\ Canonical(csv_file[i]) = Canonical(d))
            => \E e \in Range(results) :
                  e[1] = item[1] /\ Canonical(e[2]) = Canonical(d)

\* C8: the cleaning load_csv applies is idempotent: applied to a cleaned
\* identifier it returns it unchanged.
C8_CleaningIdempotent ==
    Matched => \A d \in doi_set : CleanId(d) = d

\* the orders of q
Orders(q) ==
    {[i \in 1..Len(q) |-> q[f[i]]] :
        f \in {g \in [1..Len(q) -> 1..Len(q)] :
                  \A i, j \in 1..Len(q) : i # j => g[i] # g[j]}}

\* the value of a JSON entry with its reference list in any order
ValueOrders(v) ==
    IF "referenced_dois" \in DOMAIN v
    THEN {[v EXCEPT !.referenced_dois = l] : l \in Orders(v.referenced_dois)}
    ELSE {v}

\* data (a dict: keys distinct) with its items and their reference lists in
\* any order
Shuffles(data) ==
    LET items == UNION {{<<data[i][1], v>> : v \in ValueOrders(data[i][2])} :
                           i \in 1..Len(data)}
    IN  {q \in [1..Len(data) -> items] :
            \A i, j \in 1..Len(data) : i # j => q[i][1] # q[j][1]}

\* C9: match_dois gives the same set of edges on inputs whose citing entries
\* and reference lists are permuted, and process() run again on the same
\* files writes the same set of edges.
C9_OrderIndependentIdempotent ==
    /\ [](Matched => \A shuffled \in Shuffles(json_data) :
              Range(match_dois(doi_set, shuffled)) = Range(results))
    /\ [][runs >= 1 /\ pc' = "done" => Range(output_file') = Range(output_file)]_vars

\* a second run over two entries, one of them listing a known DOI after an
\* unknown one
C9_Witness ==
    /\ Matched
    /\ runs = 2
    /\ Len(json_data) = 2
    /\ \E i \in 1..2 : RefsOf(json_data[i]) = <<IdZ, IdA>>
    /\ results # <<>>

\* the collections of pairs the match step produces
Produced == {Range(results), Range(output_file)}

C11_BothEndpointsKnown ==
    Matched => \A e \in Range(output_file) : e[1] \in doi_set /\ e[2] \in doi_set

\* C11 as amended: the cited endpoint of every edge of the verified output is
\* in the identifier set the match is made against; the citing endpoint is a
\* key of the reference JSON and is not tested against that set.
C11_CitedEndpointKnown ==
    Matched => \A e \in Range(output_file) :
                   /\ e[2] \in doi_set
                   /\ \E item \in Range(json_data) : item[1] = e[1]

\* an edge written whose citing endpoint is outside the known corpus
C11_Witness ==
    /\ Matched
    /\ \E e \in Range(output_file) : e[1] = IdC /\ e[2] = IdA /\ IdC \notin doi_set

----------------------------------------------------------------------------
(* citation_finder.py: SPARQLCitationExtractor *)

\* Values of the 'journal' column: two absolute URLs and a text that is none,
\* listed in lexicographic order
SeedJ1 == <<"h", "t", "t", "p", ":", "/", "/", "j", "1">>
SeedJ2 == <<"h", "t", "t", "p", ":", "/", "/", "j", "2">>
SeedBad == <<"j", "3">>
SortedSeeds == <<SeedJ1, SeedJ2, SeedBad>>

\* the 'journal' columns of the input CSV
JournalColumns ==
    {q \in SeqsUpTo(Range(SortedSeeds), MaxSeeds) :
        \A i, j \in 1..Len(q) : i # j => q[i] # q[j]}

Numerals == <<"1", "2", "3", "4", "5", "6", "7", "8", "9">>

\* The k-th binding of a SELECT ?citation ?citing_entity / ?cited_entity
\* result; the second one comes without ?citation
Binding(entity, k) ==
    IF k = 2
    THEN (entity :> [value |-> <<"e", Numerals[k]>>])
    ELSE ("citation" :> [value |-> <<"o", Numerals[k]>>])
         @@ (entity :> [value |-> <<"e", Numerals[k]>>])

\* What sparql.query().convert() does: it raises, or gives a result with
\* the bindings
Responses(entity) ==
    {[raises |-> TRUE, bindings |-> <<>>]}
    \cup {[raises |-> FALSE, bindings |-> [k \in 1..n |-> Binding(entity, k)]] :
            n \in 0..MaxBindings}

\* query_sparql_citing / query_sparql_cited: the bindings, None after an
\* exception
query_sparql(response) ==
    IF response.raises
    THEN [none |-> TRUE, value |-> <<>>]
    ELSE [none |-> FALSE, value |-> response.bindings]

\* `if sparql_results:` is false for None and for an empty list
HasBindings(sparql_results_) == ~sparql_results_.none /\ sparql_results_.value # <<>>

\* a variant of RowsOf in which a seed without bindings leaves a row of empty
\* fields
RowsOf_keeps_failed(journal_url, sparql_results_, entity) ==
    IF HasBindings(sparql_results_)
    THEN [i \in 1..Len(sparql_results_.value) |->
            ("journal" :> journal_url)
            @@ ("citation" :> Get(Get(sparql_results_.value[i], "citation", EmptyDict),
                                  "value", <<>>))
            @@ (entity :> Get(Get(sparql_results_.value[i], entity, EmptyDict),
                              "value", <<>>))]
    ELSE <<("journal" :> journal_url) @@ ("citation" :> <<>>) @@ (entity :> <<>>)>>

\* the rows the inner loop of extract_citing_data / extract_cited_data appends
\* for one journal_url
RowsOf(journal_url, sparql_results_, entity) ==
    IF HasBindings(sparql_results_)
    THEN [i \in 1..Len(sparql_results_.value) |->
            ("journal" :> journal_url)
            @@ ("citation" :> Get(Get(sparql_results_.value[i], "citation", EmptyDict),
                                  "value", <<>>))
            @@ (entity :> Get(Get(sparql_results_.value[i], entity, EmptyDict),
                              "value", <<>>))]
    ELSE <<>>

\* pd.DataFrame(rows).to_csv(path, index=False): the file holds one line per
\* row after the header, NaN written as an empty field; a list without rows
\* has no columns and leaves a file without header
to_csv(rows) ==
    [exists |-> TRUE,
     rows |-> [i \in 1..Len(rows) |->
                [c \in DOMAIN rows[i] |->
                    IF rows[i][c] = NaN THEN <<>> ELSE rows[i][c]]]]

\* pd.read_csv(path) raises when the file is missing or has no header
read_csv_raises(file) == ~file.exists \/ file.rows = <<>>

\* pd.read_csv(path): empty fields are read as NaN
read_csv(file) ==
    [i \in 1..Len(file.rows) |->
        [c \in DOMAIN file.rows[i] |->
            IF file.rows[i][c] = <<>> THEN NaN ELSE file.rows[i][c]]]

\* pd.merge(citing_df, cited_df, on="journal", how="outer",
\*          suffixes=('citing', 'cited')), the rows of one key
MergedPair(l, r) ==
    [journal |-> l.journal,
     citationciting |-> l.citation, citing_entity |-> l.citing_entity,
     citationcited |-> r.citation, cited_entity |-> r.cited_entity]
MergedLeftOnly(l) ==
    [journal |-> l.journal,
     citationciting |-> l.citation, citing_entity |-> l.citing_entity,
     citationcited |-> NaN, cited_entity |-> NaN]
MergedRightOnly(r) ==
    [journal |-> r.journal,
     citationciting |-> NaN, citing_entity |-> NaN,
     citationcited |-> r.citation, cited_entity |-> r.cited_entity]
\* a variant of MergeKey that stacks the two tables instead of joining them
MergeKey_stacked(citing_df, cited_df, key) ==
    LET ls == SelectSeq(citing_df, LAMBDA row : row.journal = key)
        rs == SelectSeq(cited_df, LAMBDA row : row.journal = key)
    IN  [i \in 1..Len(ls) |-> MergedLeftOnly(ls[i])]
        \o [i \in 1..Len(rs) |-> MergedRightOnly(rs[i])]

MergeKey(citing_df, cited_df, key) ==
    LET ls == SelectSeq(citing_df, LAMBDA row : row.journal = key)
        rs == SelectSeq(cited_df, LAMBDA row : row.journal = key)
    IN  IF ls # <<>> /\ rs # <<>>
        THEN [i \in 1..(Len(ls) * Len(rs)) |->
                MergedPair(ls[((i - 1) \div Len(rs)) + 1], rs[((i - 1) % Len(rs)) + 1])]
        ELSE IF ls # <<>>
        THEN [i \in 1..Len(ls) |-> MergedLeftOnly(ls[i])]
        ELSE [i \in 1..Len(rs) |-> MergedRightOnly(rs[i])]

\* the whole merge: the keys of both tables in lexicographic order
RECURSIVE MergeKeys(_, _, _)
MergeKeys(citing_df, cited_df, keys) ==
    IF keys = <<>> THEN <<>>
    ELSE MergeKey(citing_df, cited_df, Head(keys))
         \o MergeKeys(citing_df, cited_df, Tail(keys))
pd_merge(citing_df, cited_df) == MergeKeys(citing_df, cited_df, SortedSeeds)

\* the script's main block starts with the input CSV read and nothing written
InitCite ==
    /\ journal_column \in JournalColumns
    /\ cite_pc = "citing"
    /\ cite_idx = 1
    /\ citations_list = <<>>
    /\ citations_cited_list = <<>>
    /\ sparql_results = NoFile
    /\ sparql_results_cited = NoFile
    /\ all_citations = NoFile
    /\ queries = <<>>
    /\ cite_printed = <<>>
    /\ merge_runs = 0
    /\ reference = <<>>
    /\ ref_result = EmptyDict
    /\ ref_pc = "idle"
    /\ MatchIdle
    /\ MetaIdle
    /\ ValidIdle

\* one iteration of `for journal_url in journal_column['journal']` of
\* extract_citing_data
QueryCiting ==
    /\ cite_pc = "citing"
    /\ cite_idx <= Len(journal_column)
    /\ \E response \in Responses("citing_entity") :
        LET journal_url == journal_column[cite_idx]
            sparql_results_ == query_sparql(response)
        IN  /\ queries' = Append(queries, [direction |-> "citing", url |-> journal_url,
                                           response |-> response])
            /\ cite_printed' = IF response.raises
                               THEN Append(cite_printed, journal_url)
                               ELSE cite_printed
            /\ citations_list' =
                 citations_list \o RowsOf(journal_url, sparql_results_, "citing_entity")
    /\ cite_idx' = cite_idx + 1
    /\ UNCHANGED <<journal_column, cite_pc, citations_cited_list, sparql_results,
                   sparql_results_cited, all_citations, merge_runs, refVars, matchVars, metaVars, validVars>>

\* the end of extract_citing_data: sparql_results.csv is written
SaveCiting ==
    /\ cite_pc = "citing"
    /\ cite_idx > Len(journal_column)
    /\ sparql_results' = to_csv(citations_list)
    /\ cite_pc' = "cited"
    /\ cite_idx' = 1
    /\ UNCHANGED <<journal_column, citations_list, citations_cited_list,
                   sparql_results_cited, all_citations, queries, cite_printed,
                   merge_runs, refVars, matchVars, metaVars, validVars>>

\* one iteration of the loop of extract_cited_data
QueryCited ==
    /\ cite_pc = "cited"
    /\ cite_idx <= Len(journal_column)
    /\ \E response \in Responses("cited_entity") :
        LET journal_url == journal_column[cite_idx]
            sparql_results_ == query_sparql(response)
        IN  /\ queries' = Append(queries, [direction |-> "cited", url |-> journal_url,
                                           response |-> response])
            /\ cite_printed' = IF response.raises
                               THEN Append(cite_printed, journal_url)
                               ELSE cite_printed
            /\ citations_cited_list' =
                 citations_cited_list \o RowsOf(journal_url, sparql_results_, "cited_entity")
    /\ cite_idx' = cite_idx + 1
    /\ UNCHANGED <<journal_column, cite_pc, citations_list, sparql_results,
                   sparql_results_cited, all_citations, merge_runs, refVars, matchVars, metaVars, validVars>>

\* the end of extract_cited_data: sparql_results_cited.csv is written
SaveCited ==
    /\ cite_pc = "cited"
    /\ cite_idx > Len(journal_column)
    /\ sparql_results_cited' = to_csv(citations_cited_list)
    /\ cite_pc' = "merge"
    /\ UNCHANGED <<journal_column, cite_idx, citations_list, citations_cited_list,
                   sparql_results, all_citations, queries, cite_printed,
                   merge_runs, refVars, matchVars, metaVars, validVars>>

\* a variant of MergeCitingAndCited that adds its rows to the rows the file
\* already has
MergeCitingAndCited_appending ==
    /\ cite_pc \in {"merge", "done"}
    /\ merge_runs < MaxRuns
    /\ ~read_csv_raises(sparql_results)
    /\ ~read_csv_raises(sparql_results_cited)
    /\ all_citations' =
         [exists |-> TRUE,
          rows |-> all_citations.rows
                   \o to_csv(pd_merge(read_csv(sparql_results),
                                      read_csv(sparql_results_cited))).rows]
    /\ cite_pc' = "done"
    /\ merge_runs' = merge_runs + 1
    /\ UNCHANGED <<journal_column, cite_idx, citations_list, citations_cited_list,
                   sparql_results, sparql_results_cited, queries, cite_printed,
                   refVars, matchVars, metaVars, validVars>>

\* merge_citing_and_cited_data, run after extract_cited_data or run again on
\* the files it has read before
MergeCitingAndCited ==
    /\ cite_pc \in {"merge", "done"}
    /\ merge_runs < MaxRuns
    /\ ~read_csv_raises(sparql_results)
    /\ ~read_csv_raises(sparql_results_cited)
    /\ all_citations' = to_csv(pd_merge(read_csv(sparql_results),
                                        read_csv(sparql_results_cited)))
    /\ cite_pc' = "done"
    /\ merge_runs' = merge_runs + 1
    /\ UNCHANGED <<journal_column, cite_idx, citations_list, citations_cited_list,
                   sparql_results, sparql_results_cited, queries, cite_printed,
                   refVars, matchVars, metaVars, validVars>>

\* merge_citing_and_cited_data when one of the two reads raises: the exception
\* leaves the script and all_citations.csv is not written
MergeRaises ==
    /\ cite_pc = "merge"
    /\ read_csv_raises(sparql_results) \/ read_csv_raises(sparql_results_cited)
    /\ cite_pc' = "raised"
    /\ UNCHANGED <<journal_column, cite_idx, citations_list, citations_cited_list,
                   sparql_results, sparql_results_cited, all_citations, queries,
                   cite_printed, merge_runs, refVars, matchVars, metaVars, validVars>>

\* KeyboardInterrupt while a query is under way: `except Exception` does not
\* catch it, the script ends with the traceback
InterruptCite ==
    /\ cite_pc \in {"citing", "cited"}
    /\ cite_idx <= Len(journal_column)
    /\ cite_pc' = "aborted"
    /\ UNCHANGED <<journal_column, cite_idx, citations_list, citations_cited_list,
                   sparql_results, sparql_results_cited, all_citations, queries,
                   cite_printed, merge_runs, refVars, matchVars, metaVars, validVars>>

NextCite ==
    \/ QueryCiting
    \/ SaveCiting
    \/ QueryCited
    \/ SaveCited
    \/ MergeCitingAndCited
    \/ MergeRaises
    \/ InterruptCite

SpecCite == InitCite /\ [][NextCite]_vars

----------------------------------------------------------------------------
(* Properties of the citation extractor *)

\* merge_citing_and_cited_data has run, to its end or to its exception
MergeActed == cite_pc \in {"done", "raised"}

\* the seeds that have a line in a file
JournalsOf(file) == {file.rows[i].journal : i \in 1..Len(file.rows)}

\* C12: after the merge every line of sparql_results.csv and every line of
\* sparql_results_cited.csv is represented in all_citations.csv, and a seed
\* that only one of the two files has keeps its columns with the columns of the
\* other side empty.
C12_FullOuterJoin ==
    MergeActed =>
        /\ \A i \in 1..Len(sparql_results.rows) :
             \E m \in Range(all_citations.rows) :
                /\ m.journal = sparql_results.rows[i].journal
                /\ m.citationciting = sparql_results.rows[i].citation
                /\ m.citing_entity = sparql_results.rows[i].citing_entity
        /\ \A i \in 1..Len(sparql_results_cited.rows) :
             \E m \in Range(all_citations.rows) :
                /\ m.journal = sparql_results_cited.rows[i].journal
                /\ m.citationcited = sparql_results_cited.rows[i].citation
                /\ m.cited_entity = sparql_results_cited.rows[i].cited_entity
        /\ \A m \in Range(all_citations.rows) :
             /\ m.journal \notin JournalsOf(sparql_results_cited)
                  => m.citationcited = <<>> /\ m.cited_entity = <<>>
             /\ m.journal \notin JournalsOf(sparql_results)
                  => m.citationciting = <<>> /\ m.citing_entity = <<>>

\* the two files hold one line each, for the same seed
OneRowEachSameSeed ==
    /\ Len(sparql_results.rows) = 1
    /\ Len(sparql_results_cited.rows) = 1
    /\ sparql_results.rows[1].journal = sparql_results_cited.rows[1].journal

\* C13: a citing table of one row (j1, c1) merged with a cited table of one
\* row (j1, c2) gives exactly one row, which carries j1, c1 and c2.
C13_OneMergedRow ==
    (MergeActed /\ OneRowEachSameSeed) =>
        /\ all_citations.exists
        /\ Len(all_citations.rows) = 1
        /\ all_citations.rows[1].journal = sparql_results.rows[1].journal
        /\ all_citations.rows[1].citationciting = sparql_results.rows[1].citation
        /\ all_citations.rows[1].citing_entity = sparql_results.rows[1].citing_entity
        /\ all_citations.rows[1].citationcited = sparql_results_cited.rows[1].citation
        /\ all_citations.rows[1].cited_entity = sparql_results_cited.rows[1].cited_entity

\* the merge of (j1, c1) with (j1, c2) has been written
C13_Witness ==
    /\ cite_pc = "done"
    /\ OneRowEachSameSeed
    /\ sparql_results.rows[1].journal = SeedJ1
    /\ all_citations.rows[1].citing_entity = <<"e", "1">>
    /\ all_citations.rows[1].cited_entity = <<"e", "1">>

\* the list a direction's rows are appended to
ListOf(direction) ==
    IF direction = "citing" THEN citations_list ELSE citations_cited_list

\* the queries sent so far in one direction
QueriesOf(direction) == SelectSeq(queries, LAMBDA q : q.direction = direction)

\* C14: a query that fails is logged and adds no rows for its seed, it ends
\* neither loop, and the seeds after it are queried and their rows recorded.
C14_FailureIsolated ==
    /\ \A i \in 1..Len(queries) :
         LET rows == SelectSeq(ListOf(queries[i].direction),
                               LAMBDA row : row.journal = queries[i].url)
         IN  IF queries[i].response.raises
             THEN rows = <<>> /\ queries[i].url \in Range(cite_printed)
             ELSE Len(rows) = Len(queries[i].response.bindings)
    /\ cite_pc \in {"cited", "merge", "done", "raised"}
         => [i \in 1..Len(QueriesOf("citing")) |-> QueriesOf("citing")[i].url]
              = journal_column
    /\ cite_pc \in {"merge", "done", "raised"}
         => [i \in 1..Len(QueriesOf("cited")) |-> QueriesOf("cited")[i].url]
              = journal_column

\* the query of the first seed failed, the second seed was queried and its
\* rows are in the saved file
C14_Witness ==
    /\ cite_pc = "cited"
    /\ Len(journal_column) = 2
    /\ queries[1].response.raises
    /\ ~queries[2].response.raises
    /\ JournalsOf(sparql_results) = {journal_column[2]}

\* DoiFinder's main loop test of a seed: a non-empty text that starts with
\* http:// or https://
IsValidUrl(initial_url) ==
    LET url == strip(initial_url)
    IN  /\ Truthy(url)
        /\ \/ StartsWithAt(url, 1, <<"h", "t", "t", "p", ":", "/", "/">>)
           \/ StartsWithAt(url, 1, <<"h", "t", "t", "p", "s", ":", "/", "/">>)

\* C16: no request is issued for a seed that is not a well-formed absolute
\* URL; such a seed is logged and skipped.
C16_SeedsValidated ==
    \A i \in 1..Len(queries) : IsValidUrl(queries[i].url)

----------------------------------------------------------------------------
(* cited_articles_metadata_gatherer.py: CrossRefProcessor *)

\* Values of the 'doi_citing_entity' column
SeedDoi1 == <<"d", "1">>
SeedDoi2 == <<"d", "2">>
SeedDois == {SeedDoi1, SeedDoi2}

\* the 'doi_citing_entity' columns of the input CSV; a DOI may be listed twice
DoiColumns == SeqsUpTo(SeedDois, MaxDois)

\* JSON null in a place where the code expects an object
JsonNull == [null |-> TRUE]

\* The 'message' objects of the CrossRef answers:
\* a work with an empty title, a publisher and one reference
MsgUntitled ==
    ("title" :> << <<>> >>) @@ ("publisher" :> <<"P">>)
    @@ ("reference" :> <<[DOI |-> <<"r", "1">>]>>)
\* a work with a title and nothing else
MsgTitled == ("title" :> << <<"T">> >>)
\* a work with every field the code reads
MsgFull ==
    ("title" :> << <<"T">>, <<"U">> >>) @@ ("publisher" :> <<"P">>)
    @@ ("issue" :> <<"3">>)
    @@ ("created" :> ("date-time" :> <<"2", "0", "2", "4">>))
    @@ ("author" :> << ("given" :> <<"G">>) @@ ("family" :> <<"F">>),
                       ("family" :> <<"H">>) >>)
    @@ ("reference" :> <<[key |-> <<"k">>], [DOI |-> <<"r", "2">>],
                         [DOI |-> <<"r", "1">>], [DOI |-> <<"r", "2">>]>>)
\* an answer without any of the fields
MsgEmpty == EmptyDict
\* an answer whose 'created' is null
MsgNullCreated == ("title" :> << <<"T">> >>) @@ ("created" :> JsonNull)
Messages == {MsgUntitled, MsgTitled, MsgFull, MsgEmpty, MsgNullCreated}

\* What the CrossRef API does with one request: no connection, no answer at
\* all, a status that is not 2xx, a body that is not JSON, or a JSON body
Outcomes ==
    {[kind |-> k, message |-> EmptyDict] :
        k \in {"connection_error", "silent", "http_error", "invalid_json"}}
    \cup {[kind |-> "ok", message |-> m] : m \in Messages}

\* requests.get(url, timeout=timeout): without a timeout a source that never
\* answers blocks the call for ever, with one the call raises Timeout
requests_get(timeout, outcome) ==
    IF outcome.kind = "silent"
    THEN IF timeout = None THEN "hangs" ELSE "raises"
    ELSE IF outcome.kind = "connection_error" THEN "raises"
    ELSE "response"

\* "; ".join(parts)
RECURSIVE join(_, _)
join(sep, parts) ==
    IF parts = <<>> THEN <<>>
    ELSE IF Len(parts) = 1 THEN parts[1]
    ELSE parts[1] \o sep \o join(sep, Tail(parts))

\* the text get_crossref_data puts in 'title' when data has no title
NoTitleAvailable ==
    <<"N", "o", " ", "T", "i", "t", "l", "e", " ",
      "A", "v", "a", "i", "l", "a", "b", "l", "e">>

\* the fields of the dict get_crossref_data builds from data
CrossRefRecord(doi, data) ==
    [doi |-> doi,
     title |-> IF Get(data, "title", <<>>) # <<>>
               THEN Head(Get(data, "title", << <<>> >>))
               ELSE NoTitleAvailable,
     publisher |-> Get(data, "publisher", <<>>),
     issue |-> Get(data, "issue", <<>>),
     date_time |-> Get(Get(data, "created", EmptyDict), "date-time", <<>>),
     authors |-> LET author == Get(data, "author", <<>>)
                 IN  join(<<";", " ">>,
                          [i \in 1..Len(author) |->
                              Get(author[i], "given", <<>>) \o <<" ">>
                              \o Get(author[i], "family", <<>>)]),
     references |-> Get(data, "reference", <<>>)]

\* get_crossref_data(doi): how the call ends and what it returns.  A
\* RequestException (connection, timeout, status, JSON decoding) is caught,
\* printed and answered with {}; .get on a null raises AttributeError, which
\* is not caught
get_crossref_data(doi, outcome) ==
    LET sent == requests_get(None, outcome)
        data == outcome.message
    IN  IF sent = "hangs" THEN [end |-> "hangs", value |-> EmptyDict]
        ELSE IF sent = "raises" \/ outcome.kind \in {"http_error", "invalid_json"}
        THEN [end |-> "caught", value |-> EmptyDict]
        ELSE IF data = JsonNull \/ Get(data, "created", EmptyDict) = JsonNull
        THEN [end |-> "raises", value |-> EmptyDict]
        ELSE [end |-> "returns", value |-> CrossRefRecord(doi, data)]

\* the entry process_data stores in references_data
ReferencesEntry(primary_doi, crossref_data) ==
    [doi |-> primary_doi,
     referenced_entities |-> Get(crossref_data, "references", <<>>)]

\* the row process_data appends to csv_rows
CsvRow(primary_doi, crossref_data) ==
    [primary_id |-> primary_doi,
     id |-> Get(crossref_data, "doi", <<>>),
     title |-> Get(crossref_data, "title", <<>>),
     author |-> Get(crossref_data, "authors", <<>>),
     pub_date |-> Get(crossref_data, "date_time", <<>>),
     venue |-> <<>>,
     volume |-> Get(crossref_data, "volume", <<>>),
     issue |-> Get(crossref_data, "issue", <<>>),
     page |-> <<>>,
     type |-> <<>>,
     publisher |-> Get(crossref_data, "publisher", <<>>),
     editor |-> <<>>]

\* references_data[primary_doi] = entry
SetItem(d, key, value) ==
    [k \in DOMAIN d \cup {key} |-> IF k = key THEN value ELSE d[k]]

\* process_data starts with the input CSV read and nothing written
InitMeta ==
    /\ doi_citing_entity \in DoiColumns
    /\ meta_pc = "loop"
    /\ meta_idx = 1
    /\ references_data = <<>>
    /\ csv_rows = <<>>
    /\ output_json = NoJson
    /\ output_csv = NoFile
    /\ meta_log = <<>>
    /\ meta_printed = <<>>
    /\ filtered_json = NoJson
    /\ filter_runs = 0
    /\ reference = <<>>
    /\ ref_result = EmptyDict
    /\ ref_pc = "idle"
    /\ MatchIdle
    /\ CiteIdle
    /\ ValidIdle

\* the request event of one call of get_crossref_data
RequestEvent(primary_doi, outcome) ==
    [event |-> "request", doi |-> primary_doi, timeout |-> None,
     outcome |-> outcome.kind]
SleepEvent(primary_doi) ==
    [event |-> "sleep", doi |-> primary_doi, timeout |-> None, outcome |-> "none"]

\* one iteration of the for loop of process_data in which get_crossref_data
\* returns a record: it is stored, its row appended, and the pause taken
FetchStored ==
    /\ meta_pc = "loop"
    /\ meta_idx <= Len(doi_citing_entity)
    /\ \E outcome \in Outcomes :
        LET primary_doi == doi_citing_entity[meta_idx]
            call == get_crossref_data(primary_doi, outcome)
            crossref_data == call.value
        IN  /\ call.end = "returns"
            /\ crossref_data # EmptyDict
            /\ references_data' = SetItem(references_data, primary_doi,
                                          ReferencesEntry(primary_doi, crossref_data))
            /\ csv_rows' = Append(csv_rows, CsvRow(primary_doi, crossref_data))
            /\ meta_log' = meta_log \o <<RequestEvent(primary_doi, outcome),
                                         SleepEvent(primary_doi)>>
    /\ meta_idx' = meta_idx + 1
    /\ UNCHANGED <<doi_citing_entity, meta_pc, output_json, output_csv, meta_printed,
                   filtered_json, filter_runs, refVars, matchVars, citeVars, validVars>>

\* one iteration in which get_crossref_data catches a RequestException, prints
\* it and returns {}: nothing is stored and the loop goes on
FetchSkipped ==
    /\ meta_pc = "loop"
    /\ meta_idx <= Len(doi_citing_entity)
    /\ \E outcome \in Outcomes :
        LET primary_doi == doi_citing_entity[meta_idx]
            call == get_crossref_data(primary_doi, outcome)
        IN  /\ call.end = "caught"
            /\ call.value = EmptyDict
            /\ meta_log' = Append(meta_log, RequestEvent(primary_doi, outcome))
            /\ meta_printed' = Append(meta_printed, primary_doi)
    /\ meta_idx' = meta_idx + 1
    /\ UNCHANGED <<doi_citing_entity, meta_pc, references_data, csv_rows, output_json,
                   output_csv, filtered_json, filter_runs, refVars, matchVars, citeVars, validVars>>

\* one iteration in which get_crossref_data raises: the exception leaves
\* process_data before anything is written
FetchRaises ==
    /\ meta_pc = "loop"
    /\ meta_idx <= Len(doi_citing_entity)
    /\ \E outcome \in Outcomes :
        LET primary_doi == doi_citing_entity[meta_idx]
            call == get_crossref_data(primary_doi, outcome)
        IN  /\ call.end = "raises"
            /\ meta_log' = Append(meta_log, RequestEvent(primary_doi, outcome))
    /\ meta_pc' = "raised"
    /\ UNCHANGED <<doi_citing_entity, meta_idx, references_data, csv_rows, output_json,
                   output_csv, meta_printed, filtered_json, filter_runs, refVars, matchVars, citeVars, validVars>>

\* one iteration in which requests.get never returns
FetchHangs ==
    /\ meta_pc = "loop"
    /\ meta_idx <= Len(doi_citing_entity)
    /\ \E outcome \in Outcomes :
        LET primary_doi == doi_citing_entity[meta_idx]
            call == get_crossref_data(primary_doi, outcome)
        IN  /\ call.end = "hangs"
            /\ meta_log' = Append(meta_log, RequestEvent(primary_doi, outcome))
    /\ meta_pc' = "hung"
    /\ UNCHANGED <<doi_citing_entity, meta_idx, references_data, csv_rows, output_json,
                   output_csv, meta_printed, filtered_json, filter_runs, refVars, matchVars, citeVars, validVars>>

\* KeyboardInterrupt during the loop: `except requests.RequestException` does
\* not catch it and process_data has no finally, the script ends
InterruptMeta ==
    /\ meta_pc = "loop"
    /\ meta_idx <= Len(doi_citing_entity)
    /\ meta_pc' = "aborted"
    /\ UNCHANGED <<doi_citing_entity, meta_idx, references_data, csv_rows, output_json,
                   output_csv, meta_log, meta_printed, filtered_json, filter_runs, refVars, matchVars, citeVars, validVars>>

\* the end of process_data: the JSON and the CSV are written
SaveMeta ==
    /\ meta_pc = "loop"
    /\ meta_idx > Len(doi_citing_entity)
    /\ output_json' = [exists |-> TRUE, data |-> references_data]
    /\ output_csv' = [exists |-> TRUE, rows |-> csv_rows]
    /\ meta_pc' = "done"
    /\ UNCHANGED <<doi_citing_entity, meta_idx, references_data, csv_rows, meta_log,
                   meta_printed, filtered_json, filter_runs, refVars, matchVars, citeVars, validVars>>

\* [entity["DOI"] for entity in entities if "DOI" in entity]
RECURSIVE ReferencedDois(_)
ReferencedDois(entities) ==
    IF entities = <<>> THEN <<>>
    ELSE IF "DOI" \in DOMAIN Head(entities)
    THEN <<Head(entities)["DOI"]>> \o ReferencedDois(Tail(entities))
    ELSE ReferencedDois(Tail(entities))

\* a variant of filter_referenced_dois that lists each referenced DOI once
RECURSIVE Deduplicated(_)
Deduplicated(q) ==
    IF q = <<>> THEN <<>>
    ELSE LET front == Deduplicated(SubSeq(q, 1, Len(q) - 1))
         IN  IF q[Len(q)] \in Range(front) THEN front ELSE Append(front, q[Len(q)])
filter_referenced_dois_once(data) ==
    [doi \in DOMAIN data |->
        [doi |-> doi,
         referenced_dois |->
            Deduplicated(ReferencedDois(Get(data[doi], "referenced_entities", <<>>)))]]

\* filter_referenced_dois: filtered_data built from the loaded JSON
filter_referenced_dois(data) ==
    [doi \in DOMAIN data |->
        [doi |-> doi,
         referenced_dois |->
            ReferencedDois(Get(data[doi], "referenced_entities", <<>>))]]

\* filter_referenced_dois(), run after process_data or run again on the same
\* output_json
FilterReferencedDois ==
    /\ meta_pc \in {"done", "filtered"}
    /\ filter_runs < MaxRuns
    /\ output_json.exists
    /\ filtered_json' = [exists |-> TRUE, data |-> filter_referenced_dois(output_json.data)]
    /\ filter_runs' = filter_runs + 1
    /\ meta_pc' = "filtered"
    /\ UNCHANGED <<doi_citing_entity, meta_idx, references_data, csv_rows, output_json,
                   output_csv, meta_log, meta_printed, refVars, matchVars, citeVars, validVars>>

\* filter_referenced_dois() run by itself when process_data did not write
\* output_json: open() raises and nothing is written
FilterRaises ==
    /\ meta_pc \in {"raised", "aborted"}
    /\ ~output_json.exists
    /\ meta_pc' = "filter_raised"
    /\ UNCHANGED <<doi_citing_entity, meta_idx, references_data, csv_rows, output_json,
                   output_csv, meta_log, meta_printed, filtered_json, filter_runs,
                   refVars, matchVars, citeVars, validVars>>

NextMeta ==
    \/ FetchStored
    \/ FetchSkipped
    \/ FetchRaises
    \/ FetchHangs
    \/ InterruptMeta
    \/ SaveMeta
    \/ FilterReferencedDois
    \/ FilterRaises

SpecMeta == InitMeta /\ [][NextMeta]_vars

----------------------------------------------------------------------------
(* Properties of the metadata gatherer *)

\* the requests of the log
IsRequest(e) == e.event = "request"

\* C15: no failure of a single request ends process_data: the failure is
\* caught inside get_crossref_data and the seed is printed as skipped.
C15_FailureNeverAborts ==
    /\ meta_pc # "raised"
    /\ \A i \in 1..Len(meta_log) :
         (IsRequest(meta_log[i]) /\ meta_log[i].outcome # "ok")
            => (meta_pc = "hung" \/ meta_log[i].doi \in Range(meta_printed))

\* C17: a record stored for a DOI that already has one never replaces a
\* non-empty field by an empty one, and the DOI keeps a single row.
C17_FieldwiseUpsert ==
    /\ [](\A i, j \in 1..Len(csv_rows) :
            csv_rows[i].primary_id = csv_rows[j].primary_id => i = j)
    /\ [][\A d \in DOMAIN references_data :
            references_data[d].referenced_entities # <<>>
               => references_data'[d].referenced_entities # <<>>]_vars

\* C18: when the run is aborted after some records were gathered, these
\* records are in the JSON and the CSV.
C18_PartialResultsSaved ==
    (meta_pc = "aborted" /\ csv_rows # <<>>) =>
        /\ output_json.exists /\ output_json.data = references_data
        /\ output_csv.exists /\ output_csv.rows = csv_rows

\* C19: two requests of process_data never follow each other without the
\* pause between them.
C19_PauseBetweenRequests ==
    \A i \in 1..(Len(meta_log) - 1) :
        IsRequest(meta_log[i]) => meta_log[i + 1].event = "sleep"

\* C20: every request is sent with a timeout and no call waits for ever.
C20_EveryRequestTimed ==
    /\ \A i \in 1..Len(meta_log) : IsRequest(meta_log[i]) => meta_log[i].timeout # None
    /\ meta_pc # "hung"

----------------------------------------------------------------------------
(* Further properties of process_data and of the merge *)

\* C22: in a record get_crossref_data returned, a field the payload does not
\* supply is empty; here: no stored title is the placeholder text, which no
\* payload of the model supplies.
C22_AbsentFieldsEmpty ==
    \A i \in 1..Len(csv_rows) : csv_rows[i].title # NoTitleAvailable

\* the seeds that have a row in the metadata CSV
CsvSeeds(rows) == {rows[i].primary_id : i \in 1..Len(rows)}

\* C26: after process_data a seed has an entry in the references JSON exactly
\* when it has a row in the metadata CSV, and the CSV has as many rows as the
\* JSON has entries.
C26_ArtifactsAgree ==
    meta_pc = "done" =>
        /\ DOMAIN output_json.data = CsvSeeds(output_csv.rows)
        /\ Len(output_csv.rows) = Cardinality(DOMAIN output_json.data)

\* the number of lines a seed has in a file
RowsFor(file, journal) ==
    Len(SelectSeq(file.rows, LAMBDA row : row.journal = journal))

\* C27: after the merge a seed with m citing rows and n cited rows has m*n
\* merged rows when both are positive, m rows when n = 0, n rows when m = 0,
\* and none when both are 0.
C27_RowCounts ==
    MergeActed =>
        \A journal \in Range(SortedSeeds) :
            LET m == RowsFor(sparql_results, journal)
                n == RowsFor(sparql_results_cited, journal)
            IN  RowsFor(all_citations, journal) =
                    IF m > 0 /\ n > 0 THEN m * n ELSE m + n

\* the positions of the referenced entities that carry a 'DOI' key
DoiPositions(entities) == {i \in 1..Len(entities) : "DOI" \in DOMAIN entities[i]}

\* C25: the filtered output has the keys of the input, and each
\* referenced_dois list holds the 'DOI' values of the entities that carry one,
\* in their order and with repetitions.
C25_KeysAndOrderKept ==
    meta_pc = "filtered" =>
        /\ DOMAIN filtered_json.data = DOMAIN output_json.data
        /\ \A d \in DOMAIN output_json.data :
             LET entities == output_json.data[d].referenced_entities
                 dois == filtered_json.data[d].referenced_dois
             IN  /\ filtered_json.data[d].doi = d
                 /\ Len(dois) = Cardinality(DoiPositions(entities))
                 /\ \A i \in DoiPositions(entities) :
                      dois[Cardinality({j \in DoiPositions(entities) : j <= i})]
                        = entities[i]["DOI"]

\* filtered: one entry whose references repeat a DOI and hold an entity
\* without DOI, and one entry without references
C25_Witness ==
    /\ meta_pc = "filtered"
    /\ DOMAIN filtered_json.data = {SeedDoi1, SeedDoi2}
    /\ filtered_json.data[SeedDoi1].referenced_dois
         = << <<"r", "2">>, <<"r", "1">>, <<"r", "2">> >>
    /\ filtered_json.data[SeedDoi2].referenced_dois = <<>>

----------------------------------------------------------------------------
(* The phases that work from files only: merge_citing_and_cited_data,       *)
(* filter_referenced_dois and DOIMatcher.process, each with the phases that *)
(* write its input files                                                    *)

InitPhases == InitCite \/ InitMeta \/ InitMatch

NextPhases == NextCite \/ NextMeta \/ NextMatch

SpecPhases == InitPhases /\ [][NextPhases]_vars

\* C21: a run of merge_citing_and_cited_data, of filter_referenced_dois or of
\* DOIMatcher.process sends no request, leaves the files it reads as they
\* are, and a run after the first writes the output the file already holds.
C21_PhasesRerunnable ==
    [][/\ merge_runs' # merge_runs =>
            /\ queries' = queries
            /\ sparql_results' = sparql_results
            /\ sparql_results_cited' = sparql_results_cited
            /\ all_citations'.exists
            /\ merge_runs > 0 => all_citations' = all_citations
       /\ filter_runs' # filter_runs =>
            /\ meta_log' = meta_log
            /\ output_json' = output_json
            /\ filtered_json'.exists
            /\ filter_runs > 0 => filtered_json' = filtered_json
       /\ runs' # runs =>
            /\ csv_file' = csv_file
            /\ json_file' = json_file
            /\ runs > 0 => output_file' = output_file]_vars

\* the merge has run twice on files that hold rows
C21_Witness ==
    /\ merge_runs = MaxRuns
    /\ cite_pc = "done"
    /\ Len(all_citations.rows) > 1

----------------------------------------------------------------------------
(* new_doi_validator.py: DOIValidator *)

\* None returned by get_opencitations_metadata / get_crossref_metadata
NoMetadata == [none |-> TRUE]

\* The first items of the OpenCitations answers
Oc1 == ("title" :> <<"T">>)
Oc2 == ("title" :> <<"U">>) @@ ("author" :> <<"G", " ", "f">>)
       @@ ("publisher" :> <<"P">>)

\* The 'message' objects of the CrossRef answers
Cr1 == ("title" :> << <<"t">> >>)
Cr2 == ("title" :> << <<"V">> >>) @@ ("publisher" :> <<"p">>)
       @@ ("author" :> << ("given" :> <<"g">>) @@ ("family" :> <<"F">>) >>)
Cr3 == ("title" :> << <<"V">> >>)
Cr4 == ("title" :> << <<"t">> >>) @@ ("author" :> << ("family" :> <<"H">>) >>)
CrEmpty == EmptyDict
CrMessages == {Cr1, Cr2, Cr3, Cr4, CrEmpty}

\* What the OpenCitations API does with one request: an exception of any
\* kind, or a JSON list
OcOutcomes ==
    {[kind |-> "error", body |-> <<>>]}
    \cup {[kind |-> "ok", body |-> b] : b \in {<<>>, <<Oc1>>, <<Oc2>>}}

\* What the CrossRef API does with one request: an exception of any kind, or
\* a JSON object with or without 'message'
CrOutcomes ==
    {[kind |-> "error", body |-> EmptyDict]}
    \cup {[kind |-> "ok", body |-> EmptyDict]}
    \cup {[kind |-> "ok", body |-> ("message" :> m)] : m \in CrMessages}

\* get_opencitations_metadata(doi)
get_opencitations_metadata(outcome) ==
    IF outcome.kind = "ok" /\ outcome.body # <<>>
    THEN outcome.body[1]
    ELSE NoMetadata

\* get_crossref_metadata(doi)
get_crossref_metadata(outcome) ==
    IF outcome.kind = "ok" /\ "message" \in DOMAIN outcome.body
    THEN outcome.body["message"]
    ELSE NoMetadata

\* `if opencitations_data and crossref_data`: None and {} are false
HasData(data) == data # NoMetadata /\ data # EmptyDict

\* str.lower()
lower(s) == [i \in 1..Len(s) |-> ToLower(s[i])]

\* sub in s
Contains(s, sub) == sub = <<>> \/ find(s, sub) >= 0

\* validate_doi raises KeyError when an author of the CrossRef record has no
\* 'given' or no 'family'
validate_doi_raises(opencitations_data, crossref_data) ==
    LET author == Get(crossref_data, "author", <<>>)
    IN  \E i \in 1..Len(author) :
            "given" \notin DOMAIN author[i] \/ "family" \notin DOMAIN author[i]

\* the text validate_doi builds from the authors of the CrossRef record
CrossrefAuthor(crossref_data) ==
    LET author == Get(crossref_data, "author", <<>>)
    IN  lower(join(<<",", " ">>,
                   [i \in 1..Len(author) |->
                       author[i]["given"] \o <<" ">> \o author[i]["family"]]))

\* a variant of validate_doi that asks for the three matches together
validate_doi_strict(doi, opencitations_data, crossref_data) ==
    LET opencitations_title == lower(Get(opencitations_data, "title", <<>>))
        opencitations_author == lower(Get(opencitations_data, "author", <<>>))
        opencitations_publisher == lower(Get(opencitations_data, "publisher", <<>>))
        crossref_title == IF Get(crossref_data, "title", <<>>) # <<>>
                          THEN lower(Head(Get(crossref_data, "title", << <<>> >>)))
                          ELSE <<>>
        crossref_author == CrossrefAuthor(crossref_data)
        crossref_publisher == lower(Get(crossref_data, "publisher", <<>>))
        title_match == opencitations_title = crossref_title
        author_match == IF opencitations_author # <<>>
                        THEN Contains(crossref_author, opencitations_author)
                        ELSE TRUE
        publisher_match == opencitations_publisher = crossref_publisher
    IN  [doi |-> doi,
         opencitations_title |-> opencitations_title,
         crossref_title |-> crossref_title,
         title_match |-> title_match,
         opencitations_author |-> opencitations_author,
         crossref_author |-> crossref_author,
         author_match |-> author_match,
         opencitations_publisher |-> opencitations_publisher,
         crossref_publisher |-> crossref_publisher,
         publisher_match |-> publisher_match,
         valid |-> title_match /\ author_match /\ publisher_match]

\* validate_doi(doi, opencitations_data, crossref_data)
validate_doi(doi, opencitations_data, crossref_data) ==
    LET opencitations_title == lower(Get(opencitations_data, "title", <<>>))
        opencitations_author == lower(Get(opencitations_data, "author", <<>>))
        opencitations_publisher == lower(Get(opencitations_data, "publisher", <<>>))
        crossref_title == IF Get(crossref_data, "title", <<>>) # <<>>
                          THEN lower(Head(Get(crossref_data, "title", << <<>> >>)))
                          ELSE <<>>
        crossref_author == CrossrefAuthor(crossref_data)
        crossref_publisher == lower(Get(crossref_data, "publisher", <<>>))
        title_match == opencitations_title = crossref_title
        author_match == IF opencitations_author # <<>>
                        THEN Contains(crossref_author, opencitations_author)
                        ELSE TRUE
        publisher_match == opencitations_publisher = crossref_publisher
    IN  [doi |-> doi,
         opencitations_title |-> opencitations_title,
         crossref_title |-> crossref_title,
         title_match |-> title_match,
         opencitations_author |-> opencitations_author,
         crossref_author |-> crossref_author,
         author_match |-> author_match,
         opencitations_publisher |-> opencitations_publisher,
         crossref_publisher |-> crossref_publisher,
         publisher_match |-> publisher_match,
         valid |-> title_match \/ (author_match /\ publisher_match)]

\* the record validate_doi_list appends when one of the two sources gave no
\* data
ErrorRecord(doi) ==
    [doi |-> doi,
     error |-> <<"D", "a", "t", "a", " ", "r", "e", "t", "r", "i", "e", "v",
                 "a", "l", " ", "f", "a", "i", "l", "e", "d", " ", "f", "o",
                 "r", " ", "o", "n", "e", " ", "o", "r", " ", "b", "o", "t",
                 "h", " ", "A", "P", "I", "s">>]

\* the script builds the validator with its doi_list
InitValid ==
    /\ doi_list \in DoiColumns
    /\ valid_pc = "loop"
    /\ valid_idx = 1
    /\ valid_results = <<>>
    /\ valid_fetched = <<>>
    /\ validation_file = NoJson
    /\ reference = <<>>
    /\ ref_result = EmptyDict
    /\ ref_pc = "idle"
    /\ MatchIdle
    /\ CiteIdle
    /\ MetaIdle

\* one iteration of the for loop of validate_doi_list that appends a record
ValidateNext ==
    /\ valid_pc = "loop"
    /\ valid_idx <= Len(doi_list)
    /\ \E oc \in OcOutcomes, cr \in CrOutcomes :
        LET doi == doi_list[valid_idx]
            opencitations_data == get_opencitations_metadata(oc)
            crossref_data == get_crossref_metadata(cr)
        IN  /\ valid_fetched' = Append(valid_fetched,
                    [opencitations_data |-> opencitations_data,
                     crossref_data |-> crossref_data])
            /\ IF HasData(opencitations_data) /\ HasData(crossref_data)
               THEN /\ ~validate_doi_raises(opencitations_data, crossref_data)
                    /\ valid_results' =
                         Append(valid_results,
                                validate_doi(doi, opencitations_data, crossref_data))
               ELSE valid_results' = Append(valid_results, ErrorRecord(doi))
    /\ valid_idx' = valid_idx + 1
    /\ UNCHANGED <<doi_list, valid_pc, validation_file,
                   refVars, matchVars, citeVars, metaVars>>

\* one iteration in which validate_doi raises: the KeyError leaves
\* validate_doi_list and the script
ValidateRaises ==
    /\ valid_pc = "loop"
    /\ valid_idx <= Len(doi_list)
    /\ \E oc \in OcOutcomes, cr \in CrOutcomes :
        LET opencitations_data == get_opencitations_metadata(oc)
            crossref_data == get_crossref_metadata(cr)
        IN  /\ HasData(opencitations_data) /\ HasData(crossref_data)
            /\ validate_doi_raises(opencitations_data, crossref_data)
            /\ valid_fetched' = Append(valid_fetched,
                    [opencitations_data |-> opencitations_data,
                     crossref_data |-> crossref_data])
    /\ valid_pc' = "raised"
    /\ UNCHANGED <<doi_list, valid_idx, valid_results, validation_file,
                   refVars, matchVars, citeVars, metaVars>>

\* save_results after validate_doi_list has returned
SaveValidation ==
    /\ valid_pc = "loop"
    /\ valid_idx > Len(doi_list)
    /\ validation_file' = [exists |-> TRUE, data |-> valid_results]
    /\ valid_pc' = "saved"
    /\ UNCHANGED <<doi_list, valid_idx, valid_results, valid_fetched,
                   refVars, matchVars, citeVars, metaVars>>

NextValid == ValidateNext \/ ValidateRaises \/ SaveValidation

SpecValid == InitValid /\ [][NextValid]_vars

----------------------------------------------------------------------------
(* Properties of the validator *)

\* the records of valid_results that validate_doi made
IsValidation(record) == "valid" \in DOMAIN record

\* C23: a DOI is marked valid exactly when the lower-cased titles are equal,
\* or the author check and the publisher equality both hold; the author check
\* holds when the OpenCitations author is empty or is part of the joined
\* CrossRef authors.  So different titles with an empty OpenCitations author
\* and equal publishers are reported valid.
C23_ValidRule ==
    \A i \in 1..Len(valid_results) :
        IsValidation(valid_results[i]) =>
            LET oc == valid_fetched[i].opencitations_data
                cr == valid_fetched[i].crossref_data
                titles_equal ==
                    lower(Get(oc, "title", <<>>))
                      = (IF Get(cr, "title", <<>>) # <<>>
                         THEN lower(Get(cr, "title", <<>>)[1]) ELSE <<>>)
                author_check ==
                    \/ Get(oc, "author", <<>>) = <<>>
                    \/ Contains(CrossrefAuthor(cr), lower(Get(oc, "author", <<>>)))
                publishers_equal ==
                    lower(Get(oc, "publisher", <<>>)) = lower(Get(cr, "publisher", <<>>))
            IN  /\ valid_results[i].valid
                     <=> (titles_equal \/ (author_check /\ publishers_equal))
                /\ (~titles_equal /\ Get(oc, "author", <<>>) = <<>> /\ publishers_equal)
                     => valid_results[i].valid

\* a record with different titles, no OpenCitations author and two empty
\* publishers, marked valid
C23_Witness ==
    \E i \in 1..Len(valid_results) :
        /\ IsValidation(valid_results[i])
        /\ ~valid_results[i].title_match
        /\ valid_results[i].opencitations_author = <<>>
        /\ valid_results[i].opencitations_publisher = <<>>
        /\ valid_results[i].crossref_publisher = <<>>
        /\ valid_results[i].valid

\* C24: validate_doi_list never aborts and appends one record per DOI in
\* input order, a validation record when both sources gave data and an error
\* record otherwise.
C24_OneResultPerDoi ==
    /\ valid_pc # "raised"
    /\ Len(valid_results) = Len(valid_fetched)
    /\ \A i \in 1..Len(valid_results) :
         /\ valid_results[i].doi = doi_list[i]
         /\ IsValidation(valid_results[i])
              <=> (HasData(valid_fetched[i].opencitations_data)
                   /\ HasData(valid_fetched[i].crossref_data))
         /\ ~IsValidation(valid_results[i]) => valid_results[i] = ErrorRecord(doi_list[i])

====
